---- MODULE Spec2Model ----
(***************************************************************************)
(* Model of the document ingestion pipeline of src/main.py:                *)
(* parse_company_profile, parse_past_performance, validate_fields,         *)
(* map_naics_to_sins and generate_checklist, run in the order of           *)
(* ingest_documents.  Texts are sequences of one-character strings, and    *)
(* the regular expressions of the source are evaluated on characters.      *)
(***************************************************************************)
EXTENDS Integers, Sequences, FiniteSets, TLC

VARIABLES profileText, perfText, profile, performance, issues, sins, checklist, pc

vars == <<profileText, perfText, profile, performance, issues, sins, checklist, pc>>

(***************************************************************************)
(* Characters and character classes of Python's re module (str patterns).  *)
(***************************************************************************)
NL == "\n"

UpperSeq == <<"A","B","C","D","E","F","G","H","I","J","K","L","M",
              "N","O","P","Q","R","S","T","U","V","W","X","Y","Z">>

LowerSeq == <<"a","b","c","d","e","f","g","h","i","j","k","l","m",
              "n","o","p","q","r","s","t","u","v","w","x","y","z">>

Uppers == {UpperSeq[i] : i \in 1..26}

Lowers == {LowerSeq[i] : i \in 1..26}

Digits == {"0","1","2","3","4","5","6","7","8","9"}

\* str.lower() on one character
Lower(c) == IF c \in Uppers THEN LowerSeq[CHOOSE i \in 1..26 : UpperSeq[i] = c] ELSE c

LowerStr(s) == [i \in 1..Len(s) |-> Lower(s[i])]

\* \s and the characters str.strip() removes
IsSpace(c) == c \in {" ", NL, "\t", "\r"}

\* \d
IsDigit(c) == c \in Digits

\* [A-Z0-9] under re.IGNORECASE
IsAlnum(c) == c \in Uppers \cup Lowers \cup Digits

\* \w
IsWord(c) == IsAlnum(c) \/ c = "_"

\* [\d,\s]
IsNaicsChar(c) == IsDigit(c) \/ c = "," \/ IsSpace(c)

\* [^,]
IsNotComma(c) == c # ","

\* . (without re.DOTALL)
IsDot(c) == c # NL

\* [a-zA-Z]
IsLetter(c) == c \in Uppers \cup Lowers

\* [a-zA-Z0-9._%+-]
IsEmailLocal(c) == IsAlnum(c) \/ c \in {".", "_", "%", "+", "-"}

\* [a-zA-Z0-9.-]
IsEmailDomain(c) == IsAlnum(c) \/ c \in {".", "-"}

\* the character c is in the class written cls in the source's patterns
Matches(c, cls) ==
  CASE cls = "\\s" -> IsSpace(c)
    [] cls = "\\d" -> IsDigit(c)
    [] cls = "\\w" -> IsWord(c)
    [] cls = "." -> IsDot(c)
    [] cls = "[A-Z0-9]" -> IsAlnum(c)
    [] cls = "[\\d,\\s]" -> IsNaicsChar(c)
    [] cls = "[^,]" -> IsNotComma(c)
    [] cls = "[a-zA-Z0-9._%+-]" -> IsEmailLocal(c)

Min(S) == CHOOSE x \in S : \A y \in S : x <= y

Max(S) == CHOOSE x \in S : \A y \in S : x >= y

\* the text from position i to the end
From(t, i) == SubSeq(t, i, Len(t))

\* first position at or after i whose character is not in class C (Len+1 if none):
\* where a greedy C* started at i stops
RunEnd(t, i, cls) == Min({j \in i..Len(t)+1 : j = Len(t)+1 \/ ~Matches(t[j], cls)})

\* str.strip()
Strip(s) ==
  LET keep == {i \in 1..Len(s) : ~IsSpace(s[i])}
  IN  IF keep = {} THEN <<>> ELSE SubSeq(s, Min(keep), Max(keep))

\* str.split(sep) for a one-character separator
RECURSIVE Split(_, _)
Split(s, sep) ==
  LET at == {i \in 1..Len(s) : s[i] = sep}
  IN  IF at = {} THEN <<s>>
      ELSE <<SubSeq(s, 1, Min(at) - 1)>> \o Split(From(s, Min(at) + 1), sep)

\* the literal lab (given in lower case) occurs at position i, ignoring case
LabelAt(t, i, lab) ==
  /\ i + Len(lab) - 1 <= Len(t)
  /\ \A k \in 1..Len(lab) : Lower(t[i + k - 1]) = lab[k]

(***************************************************************************)
(* Optional[str] fields: None, or a string (possibly the empty string).    *)
(***************************************************************************)
None == [set |-> FALSE, val |-> <<>>]

Some(v) == [set |-> TRUE, val |-> v]

\* Python truthiness of an Optional[str]
Truthy(f) == f.set /\ f.val # <<>>

(***************************************************************************)
(* re.search(label \s* (C+)) where C is disjoint from \s: the greedy \s*   *)
(* takes the whole whitespace run and the group the whole run of C.        *)
(***************************************************************************)
RunMatchAt(t, i, lab, cls) ==
  /\ LabelAt(t, i, lab)
  /\ LET s == RunEnd(t, i + Len(lab), "\\s")
     IN  s <= Len(t) /\ Matches(t[s], cls)

RunGroupAt(t, i, lab, cls) ==
  LET s == RunEnd(t, i + Len(lab), "\\s")
  IN  SubSeq(t, s, RunEnd(t, s, cls) - 1)

SearchRun(t, lab, cls) ==
  LET hits == {i \in 1..Len(t) : RunMatchAt(t, i, lab, cls)}
  IN  IF hits = {} THEN None ELSE Some(RunGroupAt(t, Min(hits), lab, cls))

(***************************************************************************)
(* \s*(.+) started at position p: the greedy \s* takes the whitespace run  *)
(* and gives characters back until .+ finds a character that is not a      *)
(* newline; .+ then runs to the end of that line.  0 when nothing matches. *)
(***************************************************************************)
DotStart(t, p) ==
  LET e == RunEnd(t, p, "\\s")
      ok == {q \in p..e : q <= Len(t) /\ IsDot(t[q])}
  IN  IF ok = {} THEN 0 ELSE Max(ok)

DotGroup(t, p) == SubSeq(t, DotStart(t, p), RunEnd(t, DotStart(t, p), ".") - 1)

\* re.search(label \s* (.+)), group(1).strip()
SearchLine(t, lab) ==
  LET hits == {i \in 1..Len(t) : LabelAt(t, i, lab) /\ DotStart(t, i + Len(lab)) # 0}
  IN  IF hits = {} THEN None ELSE Some(Strip(DotGroup(t, Min(hits) + Len(lab))))

(***************************************************************************)
(* \s*(C+) started at p where C contains \s and the run of C from p ends   *)
(* before e > p: the group starts after the whitespace run, or, when the   *)
(* run is all whitespace, \s* gives back its last character.               *)
(***************************************************************************)
GroupStart(t, p, e) ==
  LET s == RunEnd(t, p, "\\s")
  IN  IF s < e THEN s ELSE e - 1

(***************************************************************************)
(* Labels, in lower case (every search uses re.IGNORECASE).                *)
(***************************************************************************)
L_UEI == <<"u","e","i",":">>

L_DUNS == <<"d","u","n","s",":">>

L_NAICS == <<"n","a","i","c","s",":">>

L_POC == <<"p","o","c",":">>

L_ADDRESS == <<"a","d","d","r","e","s","s",":">>

L_SAM == <<"s","a","m",".","g","o","v",":">>

L_CUSTOMER == <<"c","u","s","t","o","m","e","r",":">>

L_CONTRACT == <<"c","o","n","t","r","a","c","t",":">>

L_VALUE == <<"v","a","l","u","e",":">>

L_PERIOD == <<"p","e","r","i","o","d",":">>

L_CONTACT == <<"c","o","n","t","a","c","t",":">>

REGISTERED == <<"r","e","g","i","s","t","e","r","e","d">>

(***************************************************************************)
(* parse_company_profile                                                   *)
(***************************************************************************)
\* lines = text.strip().split('\n'); if lines: company_name = lines[0].strip()
\* (split never returns the empty list)
CompanyName(t) ==
  LET lines == Split(Strip(t), NL)
  IN  IF Len(lines) > 0 THEN Some(Strip(lines[1])) ELSE None

\* re.search(r'NAICS:\s*([\d,\s]+)'): group(1), or None
NaicsMatchAt(t, i) ==
  /\ LabelAt(t, i, L_NAICS)
  /\ RunEnd(t, i + Len(L_NAICS), "[\\d,\\s]") > i + Len(L_NAICS)

NaicsGroup(t) ==
  LET hits == {i \in 1..Len(t) : NaicsMatchAt(t, i)}
      p == Min(hits) + Len(L_NAICS)
      e == RunEnd(t, p, "[\\d,\\s]")
  IN  IF hits = {} THEN None ELSE Some(SubSeq(t, GroupStart(t, p, e), e - 1))

\* [code.strip() for code in naics_str.split(',') if code.strip()]
StripNonEmpty(segs) ==
  LET F[k \in 0..Len(segs)] ==
        IF k = 0 THEN <<>>
        ELSE IF Strip(segs[k]) # <<>> THEN Append(F[k-1], Strip(segs[k])) ELSE F[k-1]
  IN  F[Len(segs)]

Naics(t) ==
  LET g == NaicsGroup(t)
  IN  IF g.set THEN StripNonEmpty(Split(g.val, ",")) ELSE <<>>

\* re.search(r'POC:\s*([^,]+),\s*([^,]+),\s*(.+)'): positions of the two commas
PocComma1(t, i) == RunEnd(t, i + Len(L_POC), "[^,]")

PocComma2(t, i) == RunEnd(t, PocComma1(t, i) + 1, "[^,]")

PocMatchAt(t, i) ==
  /\ LabelAt(t, i, L_POC)
  /\ PocComma1(t, i) <= Len(t)
  /\ PocComma1(t, i) > i + Len(L_POC)
  /\ PocComma2(t, i) <= Len(t)
  /\ PocComma2(t, i) > PocComma1(t, i) + 1
  /\ DotStart(t, PocComma2(t, i) + 1) # 0

\* the three groups of the first match, each stripped; <<>> when no match
PocGroups(t) ==
  LET hits == {i \in 1..Len(t) : PocMatchAt(t, i)}
      i == Min(hits)
      p1 == i + Len(L_POC)
      c1 == PocComma1(t, i)
      c2 == PocComma2(t, i)
  IN  IF hits = {} THEN <<>>
      ELSE << Strip(SubSeq(t, GroupStart(t, p1, c1), c1 - 1)),
              Strip(SubSeq(t, GroupStart(t, c1 + 1, c2), c2 - 1)),
              Strip(DotGroup(t, c2 + 1)) >>

\* the comparison without .lower()
SamRegisteredCaseSensitive(t) ==
  LET m == SearchRun(t, L_SAM, "\\w")
  IN  IF ~m.set THEN "None"
      ELSE IF m.val = REGISTERED THEN "True" ELSE "False"

\* sam_match.group(1).lower() == 'registered'
SamRegistered(t) ==
  LET m == SearchRun(t, L_SAM, "\\w")
  IN  IF ~m.set THEN "None"
      ELSE IF LowerStr(m.val) = REGISTERED THEN "True" ELSE "False"

\* CompanyProfile()
EmptyProfile ==
  [company_name |-> None, uei |-> None, duns |-> None, naics |-> <<>>,
   poc_name |-> None, poc_email |-> None, poc_phone |-> None,
   address |-> None, sam_registered |-> "None"]

parse_company_profile(t) ==
  LET poc == PocGroups(t)
  IN  [company_name |-> CompanyName(t),
       uei |-> SearchRun(t, L_UEI, "[A-Z0-9]"),
       duns |-> SearchRun(t, L_DUNS, "\\d"),
       naics |-> Naics(t),
       poc_name |-> IF poc = <<>> THEN None ELSE Some(poc[1]),
       poc_email |-> IF poc = <<>> THEN None ELSE Some(poc[2]),
       poc_phone |-> IF poc = <<>> THEN None ELSE Some(poc[3]),
       address |-> SearchLine(t, L_ADDRESS),
       sam_registered |-> SamRegistered(t)]

(***************************************************************************)
(* parse_past_performance                                                  *)
(***************************************************************************)
\* PastPerformance()
EmptyPerformance ==
  [customer |-> None, contract |-> None, value |-> None, period |-> None,
   contact |-> None]

parse_past_performance(t) ==
  [customer |-> SearchLine(t, L_CUSTOMER),
   contract |-> SearchLine(t, L_CONTRACT),
   value |-> SearchLine(t, L_VALUE),
   period |-> SearchLine(t, L_PERIOD),
   contact |-> SearchLine(t, L_CONTACT)]

(***************************************************************************)
(* validate_email: re.match(r'^[a-zA-Z0-9._%+-]+@[a-zA-Z0-9.-]+\.[a-zA-Z]{2,}$') *)
(* $ matches at the end and before a newline that ends the string; the     *)
(* escaped dot is the last dot, since only letters may follow it.          *)
(***************************************************************************)
validate_email(email) ==
  LET body == IF Len(email) > 0 /\ email[Len(email)] = NL
              THEN SubSeq(email, 1, Len(email) - 1) ELSE email
      a == RunEnd(body, 1, "[a-zA-Z0-9._%+-]")
      D == From(body, a + 1)
      dots == {i \in 1..Len(D) : D[i] = "."}
      d == Max(dots)
  IN  /\ email # <<>>
      /\ a > 1
      /\ a <= Len(body)
      /\ body[a] = "@"
      /\ dots # {}
      /\ d > 1
      /\ \A k \in 1..(d - 1) : IsEmailDomain(D[k])
      /\ Len(D) - d >= 2
      /\ \A k \in (d + 1)..Len(D) : IsLetter(D[k])

(***************************************************************************)
(* validate_fields                                                         *)
(***************************************************************************)
\* issues.append(code) under condition c
Issue(c, code) == IF c THEN <<code>> ELSE <<>>

\* the email check without the format test
EmailIssueNoFormat(poc_email) == Issue(~Truthy(poc_email), "missing_poc_email")

\* the two email checks as independent ifs instead of if/elif
EmailIssueTwoIfs(poc_email) ==
     Issue(~Truthy(poc_email), "missing_poc_email")
  \o Issue(~validate_email(poc_email.val), "invalid_poc_email")

\* if not poc_email: missing_poc_email  elif not validate_email(poc_email): invalid_poc_email
EmailIssue(poc_email) ==
  IF ~Truthy(poc_email) THEN <<"missing_poc_email">>
  ELSE IF ~validate_email(poc_email.val) THEN <<"invalid_poc_email">>
  ELSE <<>>

\* the profile checks with those on uei and duns in the other order
ProfileIssuesSwapped(p) ==
     Issue(~Truthy(p.company_name), "missing_company_name")
  \o Issue(~Truthy(p.duns), "missing_duns")
  \o Issue(~Truthy(p.uei), "missing_uei")
  \o Issue(p.naics = <<>>, "missing_naics")
  \o Issue(~Truthy(p.poc_name), "missing_poc_name")
  \o EmailIssue(p.poc_email)
  \o Issue(~Truthy(p.poc_phone), "missing_poc_phone")
  \o Issue(~Truthy(p.address), "missing_address")
  \o Issue(p.sam_registered = "None", "missing_sam_status")

\* the checks on the company profile, in source order
ProfileIssues(p) ==
     Issue(~Truthy(p.company_name), "missing_company_name")
  \o Issue(~Truthy(p.uei), "missing_uei")
  \o Issue(~Truthy(p.duns), "missing_duns")
  \o Issue(p.naics = <<>>, "missing_naics")
  \o Issue(~Truthy(p.poc_name), "missing_poc_name")
  \o EmailIssue(p.poc_email)
  \o Issue(~Truthy(p.poc_phone), "missing_poc_phone")
  \o Issue(~Truthy(p.address), "missing_address")
  \o Issue(p.sam_registered = "None", "missing_sam_status")

\* the performance checks without the one on the contact
PerformanceIssuesNoContact(q) ==
     Issue(~Truthy(q.customer), "missing_customer")
  \o Issue(~Truthy(q.contract), "missing_contract")
  \o Issue(~Truthy(q.value), "missing_contract_value")
  \o Issue(~Truthy(q.period), "missing_contract_period")

\* the checks on the past performance, in source order
PerformanceIssues(q) ==
     Issue(~Truthy(q.customer), "missing_customer")
  \o Issue(~Truthy(q.contract), "missing_contract")
  \o Issue(~Truthy(q.value), "missing_contract_value")
  \o Issue(~Truthy(q.period), "missing_contract_period")
  \o Issue(~Truthy(q.contact), "missing_contract_contact")

validate_fields(p, q) == ProfileIssues(p) \o PerformanceIssues(q)

(***************************************************************************)
(* map_naics_to_sins                                                       *)
(***************************************************************************)
N541511 == <<"5","4","1","5","1","1">>

N541512 == <<"5","4","1","5","1","2">>

N541611 == <<"5","4","1","6","1","1">>

N518210 == <<"5","1","8","2","1","0">>

S54151S == <<"5","4","1","5","1","S">>

S518210C == <<"5","1","8","2","1","0","C">>

NAICS_SIN_MAPPING ==
  [n \in {N541511, N541512, N541611, N518210} |->
     IF n \in {N541511, N541512} THEN S54151S
     ELSE IF n = N541611 THEN N541611 ELSE S518210C]

InSeq(x, s) == \E i \in 1..Len(s) : s[i] = x

\* the loop body without the "if sin not in sins" test
MapStepNoDedup(acc, naics) ==
  IF naics \in DOMAIN NAICS_SIN_MAPPING
  THEN Append(acc, NAICS_SIN_MAPPING[naics])
  ELSE acc

\* one iteration of the loop body
MapStep(acc, naics) ==
  IF naics \in DOMAIN NAICS_SIN_MAPPING
  THEN IF ~InSeq(NAICS_SIN_MAPPING[naics], acc)
       THEN Append(acc, NAICS_SIN_MAPPING[naics]) ELSE acc
  ELSE acc

map_naics_to_sins(naics_codes) ==
  LET F[k \in 0..Len(naics_codes)] ==
        IF k = 0 THEN <<>> ELSE MapStep(F[k-1], naics_codes[k])
  IN  F[Len(naics_codes)]

(***************************************************************************)
(* generate_checklist                                                      *)
(***************************************************************************)
generate_checklist(p, q, iss) ==
  [required |->
     [has_company_info |->
        [ok |-> Truthy(p.company_name) /\ Truthy(p.uei) /\ Truthy(p.duns),
         details |-> "Company name, UEI, and DUNS present"],
      has_valid_naics |->
        [ok |-> p.naics # <<>> /\ Len(p.naics) > 0,
         details |-> "At least one NAICS code provided"],
      has_poc_info |->
        [ok |-> Truthy(p.poc_name) /\ Truthy(p.poc_email) /\ validate_email(p.poc_email.val),
         details |-> "Complete POC information with valid email"],
      has_sam_registration |->
        [ok |-> p.sam_registered = "True",
         details |-> "SAM.gov registration confirmed"],
      has_past_performance |->
        [ok |-> Truthy(q.customer) /\ Truthy(q.contract) /\ Truthy(q.value),
         details |-> "Past performance information provided"]],
   overall |-> [ok |-> Len(iss) = 0, total_issues |-> Len(iss)]]

(***************************************************************************)
(* Input texts.  Lines of the two documents, as character sequences.       *)
(***************************************************************************)
\* "Acme Corp"
LnName == <<"A","c","m","e"," ","C","o","r","p">>

\* "UEI: ABC123"
LnUei == <<"U","E","I",":"," ","A","B","C","1","2","3">>

\* "UEI:"
LnUeiBare == <<"U","E","I",":">>

\* "DUNS: 123456789"
LnDuns == <<"D","U","N","S",":"," ","1","2","3","4","5","6","7","8","9">>

\* "NAICS: 541511, 541512"
LnNaics == <<"N","A","I","C","S",":"," ","5","4","1","5","1","1",","," ","5","4","1","5","1","2">>

\* "NAICS: 541511,"
LnNaicsWrap == <<"N","A","I","C","S",":"," ","5","4","1","5","1","1",",">>

\* "541611, 999999"
LnNaicsRest == <<"5","4","1","6","1","1",","," ","9","9","9","9","9","9">>

\* "POC: Jane Doe, jane@acme.com, 555-1234"
LnPoc ==
  <<"P","O","C",":"," ","J","a","n","e"," ","D","o","e",","," ","j","a","n","e","@","a",
   "c","m","e",".","c","o","m",","," ","5","5","5","-","1","2","3","4">>

\* "POC: Jane"
LnPocShort == <<"P","O","C",":"," ","J","a","n","e">>

\* "POC: Jane, not-an-email, 555-1234"
LnPocBadEmail ==
  <<"P","O","C",":"," ","J","a","n","e",","," ","n","o","t","-","a","n","-","e","m","a",
   "i","l",","," ","5","5","5","-","1","2","3","4">>

\* "POC: Jane, , 555-1234"
LnPocNoEmail == <<"P","O","C",":"," ","J","a","n","e",","," ",","," ","5","5","5","-","1","2","3","4">>

\* "Address: 1 Main St"
LnAddress == <<"A","d","d","r","e","s","s",":"," ","1"," ","M","a","i","n"," ","S","t">>

\* "Address: 1 Main St, Springfield, IL"
LnAddressCommas ==
  <<"A","d","d","r","e","s","s",":"," ","1"," ","M","a","i","n"," ","S","t",","," ","S",
   "p","r","i","n","g","f","i","e","l","d",","," ","I","L">>

\* "Address:"
LnAddressBare == <<"A","d","d","r","e","s","s",":">>

\* "SAM.gov: registered"
LnSam == <<"S","A","M",".","g","o","v",":"," ","r","e","g","i","s","t","e","r","e","d">>

\* "sam.gov: REGISTERED"
LnSamUpper == <<"s","a","m",".","g","o","v",":"," ","R","E","G","I","S","T","E","R","E","D">>

\* "SAM.gov: not registered"
LnSamNot ==
  <<"S","A","M",".","g","o","v",":"," ","n","o","t"," ","r","e","g","i","s","t","e","r",
   "e","d">>

\* "SAM.gov: unregistered"
LnSamUn == <<"S","A","M",".","g","o","v",":"," ","u","n","r","e","g","i","s","t","e","r","e","d">>

\* "SAM.gov:"
LnSamBare == <<"S","A","M",".","g","o","v",":">>

\* " "
LnBlank == <<" ">>

\* "Customer: DoD"
LnCustomer == <<"C","u","s","t","o","m","e","r",":"," ","D","o","D">>

\* "Customer:"
LnCustomerBare == <<"C","u","s","t","o","m","e","r",":">>

\* "Contract: C-100"
LnContract == <<"C","o","n","t","r","a","c","t",":"," ","C","-","1","0","0">>

\* "Value: $50000"
LnValue == <<"V","a","l","u","e",":"," ","$","5","0","0","0","0">>

\* "Value: "
LnValueBlank == <<"V","a","l","u","e",":"," ">>

\* "Period: 2023"
LnPeriod == <<"P","e","r","i","o","d",":"," ","2","0","2","3">>

\* "Contact: John"
LnContact == <<"C","o","n","t","a","c","t",":"," ","J","o","h","n">>

\* bounds of the input sets
MaxLines == 2

MaxCodes == 3

MaxDeviations == 2

MaxEmailParts == 3

\* all sequences over S of length at most n
SeqsUpTo(S, n) == UNION {[1..k -> S] : k \in 0..n}

\* '\n'.join(ls)
JoinLines(ls) ==
  LET F[k \in 0..Len(ls)] ==
        IF k = 0 THEN <<>>
        ELSE IF k = 1 THEN ls[1] ELSE F[k-1] \o <<NL>> \o ls[k]
  IN  F[Len(ls)]

\* ', '.join(cs)
JoinCodes(cs) ==
  LET F[k \in 0..Len(cs)] ==
        IF k = 0 THEN <<>>
        ELSE IF k = 1 THEN cs[1] ELSE F[k-1] \o <<",", " ">> \o cs[k]
  IN  F[Len(cs)]

N999999 == <<"9","9","9","9","9","9">>

Codes == {N541511, N541512, N541611, N518210, N999999}

\* the profile of a complete submission, one line per field
FullSlots == <<LnName, LnUei, LnDuns, LnNaics, LnPoc, LnAddress, LnSam>>

\* what a submission may carry instead of each line (<<>>: the line is left out)
SlotVariants ==
  << {<<>>},
     {<<>>, LnUeiBare},
     {<<>>},
     {<<>>, LnNaicsWrap},
     {<<>>, LnPocShort, LnPocBadEmail, LnPocNoEmail},
     {<<>>, LnAddressCommas, LnAddressBare},
     {<<>>, LnSamUpper, LnSamNot, LnSamUn, LnSamBare} >>

\* drop the lines that are left out
Present(ls) ==
  LET F[k \in 0..Len(ls)] ==
        IF k = 0 THEN <<>>
        ELSE IF ls[k] = <<>> THEN F[k-1] ELSE Append(F[k-1], ls[k])
  IN  F[Len(ls)]

\* complete submissions with at most MaxDeviations lines left out or altered
SlotChoices(k) == SlotVariants[k] \cup {FullSlots[k]}

DocSlots ==
  {d \in SlotChoices(1) \X SlotChoices(2) \X SlotChoices(3) \X SlotChoices(4)
         \X SlotChoices(5) \X SlotChoices(6) \X SlotChoices(7) :
     Cardinality({k \in 1..7 : d[k] # FullSlots[k]}) <= MaxDeviations}

DocTexts == {JoinLines(Present(d)) : d \in DocSlots}

FullProfileText == JoinLines(FullSlots)

\* short texts: any lines of the pool in any order
ProfilePool ==
  {LnName, LnUeiBare, LnDuns, LnNaicsWrap, LnNaicsRest, LnPocShort, LnPocNoEmail,
   LnAddressCommas, LnAddressBare, LnSam, LnSamBare, LnBlank}

ShortTexts == {JoinLines(ls) : ls \in SeqsUpTo(ProfilePool, MaxLines)}

\* a NAICS line carrying any codes
NaicsTexts == {L_NAICS \o <<" ">> \o JoinCodes(cs) : cs \in SeqsUpTo(Codes, MaxCodes)}

\* a POC line whose email segment is any concatenation of the parts
EmailParts == {<<"j","a","n","e","@">>, <<"a","c","m","e">>, <<".","c","o","m">>, <<".","c">>, <<"@">>, <<".">>}

Concat(ps) ==
  LET F[k \in 0..Len(ps)] == IF k = 0 THEN <<>> ELSE F[k-1] \o ps[k]
  IN  F[Len(ps)]

EmailTexts ==
  {<<"P","O","C",":"," ","J","a","n","e",","," ">> \o Concat(ps) \o <<","," ","5","5","5","-","1","2","3","4">> : ps \in SeqsUpTo(EmailParts, MaxEmailParts)}

ProfileTexts == DocTexts \cup ShortTexts \cup NaicsTexts \cup EmailTexts

FullPerfText == JoinLines(<<LnCustomer, LnContract, LnValue, LnPeriod, LnContact>>)

PerfPool ==
  {LnCustomer, LnCustomerBare, LnContract, LnValue, LnValueBlank, LnPeriod, LnContact}

FullPerfSlots == <<LnCustomer, LnContract, LnValue, LnPeriod, LnContact>>

PerfSlotVariants == << {<<>>, LnCustomerBare}, {<<>>}, {<<>>, LnValueBlank}, {<<>>}, {<<>>} >>

PerfSlotChoices(k) == PerfSlotVariants[k] \cup {FullPerfSlots[k]}

\* complete past performance with at most MaxDeviations lines left out or altered
PerfDocSlots ==
  {d \in PerfSlotChoices(1) \X PerfSlotChoices(2) \X PerfSlotChoices(3)
         \X PerfSlotChoices(4) \X PerfSlotChoices(5) :
     Cardinality({k \in 1..5 : d[k] # FullPerfSlots[k]}) <= MaxDeviations}

PerfTexts ==
       {JoinLines(ls) : ls \in SeqsUpTo(PerfPool, MaxLines)}
  \cup {JoinLines(Present(d)) : d \in PerfDocSlots}

(***************************************************************************)
(* ingest_documents: the pipeline, one step per call.                      *)
(***************************************************************************)
\* required checks before generate_checklist has run
NoChecklist ==
  [required |->
     [has_company_info |-> [ok |-> FALSE, details |-> ""],
      has_valid_naics |-> [ok |-> FALSE, details |-> ""],
      has_poc_info |-> [ok |-> FALSE, details |-> ""],
      has_sam_registration |-> [ok |-> FALSE, details |-> ""],
      has_past_performance |-> [ok |-> FALSE, details |-> ""]],
   overall |-> [ok |-> FALSE, total_issues |-> 0]]

Init ==
  /\ \/ profileText \in ProfileTexts /\ perfText = FullPerfText
     \/ profileText \in {FullProfileText, <<>>} /\ perfText \in PerfTexts
  /\ profile = EmptyProfile
  /\ performance = EmptyPerformance
  /\ issues = <<>>
  /\ sins = <<>>
  /\ checklist = NoChecklist
  /\ pc = "parse_company_profile"

ParseCompanyProfile ==
  /\ pc = "parse_company_profile"
  /\ profile' = parse_company_profile(profileText)
  /\ pc' = "parse_past_performance"
  /\ UNCHANGED <<profileText, perfText, performance, issues, sins, checklist>>

ParsePastPerformance ==
  /\ pc = "parse_past_performance"
  /\ performance' = parse_past_performance(perfText)
  /\ pc' = "validate_fields"
  /\ UNCHANGED <<profileText, perfText, profile, issues, sins, checklist>>

ValidateFields ==
  /\ pc = "validate_fields"
  /\ issues' = validate_fields(profile, performance)
  /\ pc' = "map_naics_to_sins"
  /\ UNCHANGED <<profileText, perfText, profile, performance, sins, checklist>>

MapNaicsToSins ==
  /\ pc = "map_naics_to_sins"
  /\ sins' = map_naics_to_sins(profile.naics)
  /\ pc' = "generate_checklist"
  /\ UNCHANGED <<profileText, perfText, profile, performance, issues, checklist>>

GenerateChecklist ==
  /\ pc = "generate_checklist"
  /\ checklist' = generate_checklist(profile, performance, issues)
  /\ pc' = "done"
  /\ UNCHANGED <<profileText, perfText, profile, performance, issues, sins>>

Next ==
  \/ ParseCompanyProfile
  \/ ParsePastPerformance
  \/ ValidateFields
  \/ MapNaicsToSins
  \/ GenerateChecklist

Spec == Init /\ [][Next]_vars

(***************************************************************************)
(* Properties.                                                             *)
(***************************************************************************)
Parsed == pc \notin {"parse_company_profile", "parse_past_performance"}

Validated == pc \in {"map_naics_to_sins", "generate_checklist", "done"}

Mapped == pc \in {"generate_checklist", "done"}

Done == pc = "done"

Has(code) == InSeq(code, issues)

NoDuplicates(s) == \A i, j \in 1..Len(s) : s[i] = s[j] => i = j

\* the static table as the pairs code -> program code
TablePairs ==
  { <<N541511, S54151S>>, <<N541512, S54151S>>, <<N541611, N541611>>, <<N518210, S518210C>> }

\* the positions of the input codes that map to the program code v
PositionsFor(v, codes) == {i \in 1..Len(codes) : <<codes[i], v>> \in TablePairs}

\* C1: the mapped list has no duplicates, holds only values of the static
\* table, holds a program code iff some input code maps to it, and orders
\* the program codes by the position of the first input code mapping to each.
C1_MapNaicsToSins ==
  Mapped =>
    /\ NoDuplicates(sins)
    /\ \A k \in 1..Len(sins) : sins[k] \in {pr[2] : pr \in TablePairs}
    /\ \A pr \in TablePairs :
         InSeq(pr[2], sins) <=> PositionsFor(pr[2], profile.naics) # {}
    /\ \A i, j \in 1..Len(sins) :
         i < j => Min(PositionsFor(sins[i], profile.naics))
                    < Min(PositionsFor(sins[j], profile.naics))

\* [541511, 541511, 999999] has been mapped to [54151S]
C1_Witness ==
  /\ Mapped
  /\ profile.naics = <<N541511, N541511, N999999>>
  /\ sins = <<S54151S>>

\* the format rule: local part, '@', domain, '.', at least two letters
EmailFormat(e) ==
  \E a \in 2..Len(e) : \E d \in (a + 2)..(Len(e) - 2) :
    /\ e[a] = "@"
    /\ e[d] = "."
    /\ \A k \in 1..(a - 1) : IsEmailLocal(e[k])
    /\ \A k \in (a + 1)..(d - 1) : IsEmailDomain(e[k])
    /\ \A k \in (d + 1)..Len(e) : IsLetter(e[k])

\* C2 as stated: never both email issues; invalid_poc_email exactly when
\* poc_email is set and fails validate_email; an unset poc_email gives
\* missing_poc_email only.
C2_Original ==
  Validated =>
    /\ ~(Has("missing_poc_email") /\ Has("invalid_poc_email"))
    /\ Has("invalid_poc_email") <=>
         (profile.poc_email.set /\ ~validate_email(profile.poc_email.val))
    /\ ~profile.poc_email.set =>
         (Has("missing_poc_email") /\ ~Has("invalid_poc_email"))
    /\ (profile.poc_email.set /\ EmailFormat(profile.poc_email.val)) =>
         ~Has("invalid_poc_email")

\* C2 amended: never both email issues; invalid_poc_email exactly when
\* poc_email is a non-empty string that fails validate_email;
\* missing_poc_email exactly when poc_email is unset or the empty string.
C2_EmailIssues ==
  Validated =>
    /\ ~(Has("missing_poc_email") /\ Has("invalid_poc_email"))
    /\ Has("invalid_poc_email") <=>
         (/\ profile.poc_email.set
          /\ profile.poc_email.val # <<>>
          /\ ~validate_email(profile.poc_email.val))
    /\ Has("missing_poc_email") <=>
         (~profile.poc_email.set \/ profile.poc_email.val = <<>>)
    /\ (profile.poc_email.set /\ EmailFormat(profile.poc_email.val)) =>
         ~Has("invalid_poc_email")
    /\ (profile.poc_email.set /\ profile.poc_email.val # <<>>
          /\ ~EmailFormat(profile.poc_email.val)) => Has("invalid_poc_email")

\* an extracted email that fails the format rule has been reported as invalid
C2_Witness ==
  /\ Validated
  /\ profile.poc_email.set
  /\ profile.poc_email.val # <<>>
  /\ Has("invalid_poc_email")
  /\ ~Has("missing_poc_email")

AllOptionalFields ==
  << profile.company_name, profile.uei, profile.duns, profile.poc_name,
     profile.poc_email, profile.poc_phone, profile.address,
     performance.customer, performance.contract, performance.value,
     performance.period, performance.contact >>

\* C3: zero issues are reported only when every profile and performance
\* field is present, the email passes the format check and sam_registered is
\* not unknown; overall.ok is true exactly when the issue list is empty and
\* total_issues is its length.
C3_ZeroIssues ==
  Done =>
    /\ checklist.overall.ok <=> issues = <<>>
    /\ checklist.overall.total_issues = Len(issues)
    /\ (issues = <<>> \/ checklist.overall.ok \/ checklist.overall.total_issues = 0) =>
         /\ \A k \in 1..Len(AllOptionalFields) :
              AllOptionalFields[k].set /\ AllOptionalFields[k].val # <<>>
         /\ Len(profile.naics) >= 1
         /\ validate_email(profile.poc_email.val)
         /\ profile.sam_registered # "None"

\* a submission has gone through with zero issues
C3_Witness ==
  /\ Done
  /\ issues = <<>>
  /\ checklist.overall.ok
  /\ checklist.overall.total_issues = 0

\* a word follows the label at position i, after optional whitespace, at j
SamWordAt(t, i, j) ==
  /\ LabelAt(t, i, L_SAM)
  /\ j \in (i + Len(L_SAM))..Len(t)
  /\ IsWord(t[j])
  /\ \A k \in (i + Len(L_SAM))..(j - 1) : IsSpace(t[k])

SamLabels(t) == {i \in 1..Len(t) : LabelAt(t, i, L_SAM)}

HasSamWord(t) == \E i \in SamLabels(t) : \E j \in i..Len(t) : SamWordAt(t, i, j)

\* the word that follows the first such label
FirstSamWord(t) ==
  LET i == Min({x \in SamLabels(t) : \E j \in x..Len(t) : SamWordAt(t, x, j)})
      j == CHOOSE y \in i..Len(t) : SamWordAt(t, i, y)
      e == Max({y \in j..Len(t) : \A k \in j..y : IsWord(t[k])})
  IN  SubSeq(t, j, e)

\* C4: sam_registered is unknown iff no 'SAM.gov:' label is followed by a
\* word; otherwise it is true iff the word after the first such label equals
\* 'registered' ignoring case, and false for any other word.
\* missing_sam_status is reported iff sam_registered is unknown, and
\* has_sam_registration.ok is true iff sam_registered is true.
C4_SamThreeValued ==
  Done =>
    /\ profile.sam_registered \in {"None", "True", "False"}
    /\ profile.sam_registered = "None" <=> ~HasSamWord(profileText)
    /\ HasSamWord(profileText) =>
         (profile.sam_registered = "True"
            <=> LowerStr(FirstSamWord(profileText)) = REGISTERED)
    /\ Has("missing_sam_status") <=> profile.sam_registered = "None"
    /\ checklist.required.has_sam_registration.ok <=> profile.sam_registered = "True"

\* a word other than 'registered' gave false: no issue, and a failed check
C4_Witness ==
  /\ Done
  /\ HasSamWord(profileText)
  /\ LowerStr(FirstSamWord(profileText)) # REGISTERED
  /\ profile.sam_registered = "False"
  /\ ~Has("missing_sam_status")
  /\ ~checklist.required.has_sam_registration.ok

(***************************************************************************)
(* Line-oriented extraction, as the specification describes it: a value is *)
(* taken from the text that follows the label on the first line whose own  *)
(* text matches the label's pattern.                                       *)
(***************************************************************************)
\* whitespace that stays on the line
Blanks == {" ", "\t", "\r"}

\* first position at or after i whose character is outside S (Len+1 if none)
RunEndIn(t, i, S) == Min({j \in i..Len(t)+1 : j = Len(t)+1 \/ t[j] \notin S})

\* first position at or after i whose character is in S (Len+1 if none)
RunEndNotIn(t, i, S) == Min({j \in i..Len(t)+1 : j = Len(t)+1 \/ t[j] \in S})

RestOfLine(t, p) == SubSeq(t, p, RunEndNotIn(t, p, {NL}) - 1)

\* label, blanks, then a run of the class cls on the same line
LineRun(t, lab, cls) ==
  LET hits == {i \in 1..Len(t) :
                 /\ LabelAt(t, i, lab)
                 /\ RunEndIn(t, i + Len(lab), Blanks) <= Len(t)
                 /\ Matches(t[RunEndIn(t, i + Len(lab), Blanks)], cls)}
      s == RunEndIn(t, Min(hits) + Len(lab), Blanks)
  IN  IF hits = {} THEN None ELSE Some(SubSeq(t, s, RunEnd(t, s, cls) - 1))

\* label, then free text to the end of the line
LineText(t, lab) ==
  LET hits == {i \in 1..Len(t) :
                 LabelAt(t, i, lab) /\ RestOfLine(t, i + Len(lab)) # <<>>}
  IN  IF hits = {} THEN None
      ELSE Some(Strip(RestOfLine(t, Min(hits) + Len(lab))))

LineSam(t) ==
  LET m == LineRun(t, L_SAM, "\\w")
  IN  IF ~m.set THEN "None"
      ELSE IF LowerStr(m.val) = REGISTERED THEN "True" ELSE "False"

NaicsLineChars == Digits \cup {","} \cup Blanks

\* the segments of the NAICS line
LineNaics(t) ==
  LET hits == {i \in 1..Len(t) :
                 /\ LabelAt(t, i, L_NAICS)
                 /\ RunEndIn(t, i + Len(L_NAICS), NaicsLineChars) > i + Len(L_NAICS)}
      p == Min(hits) + Len(L_NAICS)
  IN  IF hits = {} THEN <<>>
      ELSE StripNonEmpty(Split(SubSeq(t, p, RunEndIn(t, p, NaicsLineChars) - 1), ","))

\* the positions of the two commas that end the first two segments of the
\* line whose label is at i
LineComma1(t, i) == RunEndNotIn(t, i + Len(L_POC), {",", NL})

LineComma2(t, i) == RunEndNotIn(t, LineComma1(t, i) + 1, {",", NL})

LinePocAt(t, i) ==
  /\ LabelAt(t, i, L_POC)
  /\ LineComma1(t, i) <= Len(t)
  /\ t[LineComma1(t, i)] = ","
  /\ LineComma1(t, i) > i + Len(L_POC)
  /\ LineComma2(t, i) <= Len(t)
  /\ t[LineComma2(t, i)] = ","
  /\ LineComma2(t, i) > LineComma1(t, i) + 1
  /\ RestOfLine(t, LineComma2(t, i) + 1) # <<>>

\* the three segments of the POC line: <<>> when the line has fewer
LinePoc(t) ==
  LET hits == {i \in 1..Len(t) : LinePocAt(t, i)}
      i0 == Min(hits)
  IN  IF hits = {} THEN <<>>
      ELSE << Strip(SubSeq(t, i0 + Len(L_POC), LineComma1(t, i0) - 1)),
              Strip(SubSeq(t, LineComma1(t, i0) + 1, LineComma2(t, i0) - 1)),
              Strip(RestOfLine(t, LineComma2(t, i0) + 1)) >>

PocFields == <<profile.poc_name, profile.poc_email, profile.poc_phone>>

\* C5 as stated: the POC fields are all unset when the POC line has fewer
\* than three comma-separated segments, and otherwise each is the trimmed
\* text of its own segment of that line; never some set and some unset.
C5_Original ==
  Parsed =>
    /\ \A a, b \in 1..3 : PocFields[a].set <=> PocFields[b].set
    /\ LinePoc(profileText) = <<>> => \A a \in 1..3 : PocFields[a] = None
    /\ LinePoc(profileText) # <<>> =>
         \A a \in 1..3 : PocFields[a] = Some(LinePoc(profileText)[a])

AllMissing ==
  << "missing_company_name", "missing_uei", "missing_duns", "missing_naics",
     "missing_poc_name", "missing_poc_email", "missing_poc_phone",
     "missing_address", "missing_sam_status", "missing_customer",
     "missing_contract", "missing_contract_value", "missing_contract_period",
     "missing_contract_contact" >>

\* C6 as stated: for the empty profile text and the empty performance text
\* every field of both records is unset (company_name included), all
\* fourteen missing_* codes are reported and no program code is recommended.
C6_Original ==
  (Done /\ profileText = <<>> /\ perfText = <<>>) =>
    /\ profile = EmptyProfile
    /\ performance = EmptyPerformance
    /\ issues = AllMissing
    /\ sins = <<>>

\* C7 as stated: every labelled field is taken from the text that follows
\* its label on the first line matching the label's pattern, and never
\* holds characters of another line.
C7_Original ==
  /\ Parsed =>
       /\ profile.uei = LineRun(profileText, L_UEI, "[A-Z0-9]")
       /\ profile.duns = LineRun(profileText, L_DUNS, "\\d")
       /\ profile.naics = LineNaics(profileText)
       /\ LinePoc(profileText) = <<>> => \A a \in 1..3 : PocFields[a] = None
       /\ LinePoc(profileText) # <<>> =>
            \A a \in 1..3 : PocFields[a] = Some(LinePoc(profileText)[a])
       /\ profile.address = LineText(profileText, L_ADDRESS)
       /\ profile.sam_registered = LineSam(profileText)
       /\ \A f \in {profile.uei, profile.duns, profile.poc_name, profile.poc_email,
                    profile.poc_phone, profile.address} : ~InSeq(NL, f.val)
  /\ pc \notin {"parse_company_profile", "parse_past_performance"} =>
       /\ performance.customer = LineText(perfText, L_CUSTOMER)
       /\ performance.contract = LineText(perfText, L_CONTRACT)
       /\ performance.value = LineText(perfText, L_VALUE)
       /\ performance.period = LineText(perfText, L_PERIOD)
       /\ performance.contact = LineText(perfText, L_CONTACT)

\* C8 as stated: naics holds no empty string and no untrimmed element, and
\* equals the comma-separated segments of the NAICS line in order, empty
\* segments dropped and duplicates kept; it is empty when no line matches.
C8_Original ==
  Parsed =>
    /\ \A k \in 1..Len(profile.naics) :
         profile.naics[k] # <<>> /\ Strip(profile.naics[k]) = profile.naics[k]
    /\ profile.naics = LineNaics(profileText)

(***************************************************************************)
(* The order of the issue codes.                                           *)
(***************************************************************************)
FixedOrder ==
  << "missing_company_name", "missing_uei", "missing_duns", "missing_naics",
     "missing_poc_name", "missing_poc_email", "invalid_poc_email",
     "missing_poc_phone", "missing_address", "missing_sam_status",
     "missing_customer", "missing_contract", "missing_contract_value",
     "missing_contract_period", "missing_contract_contact" >>

Pos(code) == CHOOSE k \in 1..Len(FixedOrder) : FixedOrder[k] = code

\* a subsequence of FixedOrder (hence without duplicates)
InFixedOrder(s) ==
  /\ \A k \in 1..Len(s) : InSeq(s[k], FixedOrder)
  /\ \A i, j \in 1..Len(s) : i < j => Pos(s[i]) < Pos(s[j])

NameOnlyIssues ==
  << "missing_uei", "missing_duns", "missing_naics", "missing_poc_name",
     "missing_poc_email", "missing_poc_phone", "missing_address",
     "missing_sam_status" >>

\* the field f counts as missing: unset, or, when emptyCounts, the empty string
Missing(f, emptyCounts) == ~f.set \/ (emptyCounts /\ f.val = <<>>)

\* each code is reported exactly when its condition holds
Triggers(e) ==
  /\ Has("missing_company_name") <=> Missing(profile.company_name, e)
  /\ Has("missing_uei") <=> Missing(profile.uei, e)
  /\ Has("missing_duns") <=> Missing(profile.duns, e)
  /\ Has("missing_naics") <=> Len(profile.naics) = 0
  /\ Has("missing_poc_name") <=> Missing(profile.poc_name, e)
  /\ Has("missing_poc_email") <=> Missing(profile.poc_email, e)
  /\ Has("invalid_poc_email") <=>
       (~Missing(profile.poc_email, e) /\ ~validate_email(profile.poc_email.val))
  /\ Has("missing_poc_phone") <=> Missing(profile.poc_phone, e)
  /\ Has("missing_address") <=> Missing(profile.address, e)
  /\ Has("missing_sam_status") <=> profile.sam_registered = "None"
  /\ Has("missing_customer") <=> Missing(performance.customer, e)
  /\ Has("missing_contract") <=> Missing(performance.contract, e)
  /\ Has("missing_contract_value") <=> Missing(performance.value, e)
  /\ Has("missing_contract_period") <=> Missing(performance.period, e)
  /\ Has("missing_contract_contact") <=> Missing(performance.contact, e)

NameOnlyCase ==
  (profileText = LnName /\ perfText = FullPerfText) => issues = NameOnlyIssues

\* C9 as stated: the issue list is a duplicate-free subsequence of the fixed
\* order, each code is present exactly when its field is unset (naics empty,
\* email set but failing the format, SAM status unknown), and a profile of
\* only a company name gives the eight profile codes in order.
C9_Original ==
  Validated => InFixedOrder(issues) /\ NoDuplicates(issues) /\ Triggers(FALSE) /\ NameOnlyCase

\* C9 amended: as stated, with each missing_* code of a text field present
\* exactly when the field is unset or the empty string, and
\* invalid_poc_email exactly when poc_email is non-empty and fails the format.
C9_IssueOrder ==
  Validated =>
    InFixedOrder(issues) /\ NoDuplicates(issues) /\ Triggers(TRUE) /\ NameOnlyCase

\* a profile of only a company name has been validated
C9_Witness ==
  /\ Validated
  /\ profileText = LnName
  /\ issues = NameOnlyIssues

(***************************************************************************)
(* The checklist against the issue list.                                   *)
(***************************************************************************)
\* C10 as stated: whenever overall.ok is true, all five required checks are ok.
C10_Original ==
  (Done /\ checklist.overall.ok) =>
    /\ checklist.required.has_company_info.ok
    /\ checklist.required.has_valid_naics.ok
    /\ checklist.required.has_poc_info.ok
    /\ checklist.required.has_sam_registration.ok
    /\ checklist.required.has_past_performance.ok

\* C10 amended: whenever overall.ok is true, has_company_info,
\* has_valid_naics, has_poc_info and has_past_performance are ok, and
\* has_sam_registration is ok unless sam_registered is false.
C10_OverallOk ==
  (Done /\ checklist.overall.ok) =>
    /\ checklist.required.has_company_info.ok
    /\ checklist.required.has_valid_naics.ok
    /\ checklist.required.has_poc_info.ok
    /\ checklist.required.has_past_performance.ok
    /\ checklist.required.has_sam_registration.ok \/ profile.sam_registered = "False"

\* an overall pass together with a failed has_sam_registration
C10_Witness ==
  /\ Done
  /\ checklist.overall.ok
  /\ profile.sam_registered = "False"
  /\ ~checklist.required.has_sam_registration.ok
  /\ checklist.required.has_poc_info.ok

====
